---- MODULE Spec2Model ----
(***************************************************************************)
(* Model of the crypto_news service: the Flask API (crypto_news.py) with   *)
(* its background refresh thread, the keyed TTL cache and the memoizing    *)
(* decorator, and the record normalizer of both the API and the Streamlit  *)
(* dashboard (crypto_news_app.py).                                         *)
(*                                                                         *)
(* Time is counted in whole seconds.  A Python value is a tagged record:   *)
(* None, Str(s) with s a sequence of tokens, DateTime(t).  The text of a   *)
(* feed description is a sequence of tokens, a token being one character   *)
(* of text, one blank, or one complete markup tag.                         *)
(***************************************************************************)
EXTENDS Integers, Sequences, FiniteSets, TLC

VARIABLES
    now,          \* the wall clock, datetime.now(), in seconds
    cache,        \* the module-level dict `cache` (the Snapshot)
    written,      \* history: the loop iteration that last wrote each field of cache
    upd,          \* the update_cache thread: position and locals
    news_cache,   \* NewsCache.cache, the keyed TTL store
    req,          \* the request-handling threads: position and locals
    started,      \* the number of requests to the memoized routes so far
    lastSet,      \* history: the arguments and time of the last set() per key
    got,          \* the result of the last direct NewsCache.get
    norm          \* the normalizer run: input feed document and outputs

vars == <<now, cache, written, upd, news_cache, req, started, lastSet, got, norm>>

----------------------------------------------------------------------------
(* Python values *)

None == [type |-> "NoneType"]
Str(s) == [type |-> "str", val |-> s]
DateTime(t) == [type |-> "datetime", t |-> t]

IsStr(v) == v.type = "str"

----------------------------------------------------------------------------
(* Bounds *)

MaxLen == 4          \* longest description, in tokens
MaxTime == 900       \* the clock stops advancing here
MaxCount == 2        \* largest count requested of /news/latest/<count>
MaxRequests == 2     \* most requests to the memoized routes in one run
MemoMaxTime == 300   \* the clock bound of the runs with memoized requests
MaxTtl == 2          \* largest ttl_seconds passed to NewsCache.set directly
MaxClock == 3        \* the clock bound for the direct NewsCache runs

----------------------------------------------------------------------------
(* Text and markup *)

Href == <<"h">>                      \* the value of an href attribute
Tokens == {"x", " ", "<a href>", "<a>", "</a>", "<b>"}
TagTokens == {"<a href>", "<a>", "</a>", "<b>"}

RECURSIVE SeqsUpTo(_, _)
SeqsUpTo(S, n) ==
    IF n = 0 THEN {<<>>}
    ELSE LET shorter == SeqsUpTo(S, n - 1)
         IN  shorter \cup {Append(s, e) : s \in {t \in shorter : Len(t) = n - 1}, e \in S}

RECURSIVE Filter(_, _)
Filter(s, keep) ==
    IF s = <<>> THEN <<>>
    ELSE IF Head(s) \in keep THEN <<Head(s)>> \o Filter(Tail(s), keep)
    ELSE Filter(Tail(s), keep)

(* str.strip() *)
RECURSIVE LStrip(_)
LStrip(s) == IF s # <<>> /\ Head(s) = " " THEN LStrip(Tail(s)) ELSE s

RECURSIVE RStrip(_)
RStrip(s) ==
    IF s # <<>> /\ s[Len(s)] = " " THEN RStrip(SubSeq(s, 1, Len(s) - 1)) ELSE s

Strip(s) == RStrip(LStrip(s))

(* ' '.join(text.split()): leading and trailing blanks go, every inner run of
   blanks becomes one blank *)
RECURSIVE Squeeze(_)
Squeeze(s) ==
    IF Len(s) < 2 THEN s
    ELSE IF s[1] = " " /\ s[2] = " " THEN Squeeze(Tail(s))
    ELSE <<s[1]>> \o Squeeze(Tail(s))

JoinSplit(s) == Squeeze(Strip(s))

(* re.sub('<.*?>', '', raw_html), then ' '.join(text.split()) *)
clean_html(raw_html) ==
    LET text == Filter(raw_html, Tokens \ TagTokens)
    IN  JoinSplit(text)

(* summary_html.split('</a>')[-1]: what follows the last '</a>', the whole
   string when there is none *)
LastAfterClose(s) ==
    LET closes == {i \in 1..Len(s) : s[i] = "</a>"}
    IN  IF closes = {} THEN s
        ELSE LET last == CHOOSE i \in closes : \A j \in closes : j <= i
             IN  SubSeq(s, last + 1, Len(s))

(* soup.find('a'): the first anchor element, None when there is none *)
FindAnchor(s) ==
    LET opens == {i \in 1..Len(s) : s[i] \in {"<a href>", "<a>"}}
    IN  IF opens = {} THEN None
        ELSE LET first == CHOOSE i \in opens : \A j \in opens : i <= j
             IN  [type |-> "Tag", token |-> s[first]]

(* Tag.get('href'): None when the attribute is missing *)
TagGetHref(tag) == IF tag.token = "<a href>" THEN Str(Href) ELSE None

(* Tag.get('href', ''): the given default when the attribute is missing *)
TagGetHrefDefault(tag) == IF tag.token = "<a href>" THEN Str(Href) ELSE Str(<<>>)

extract_link(html_text) ==
    LET link == FindAnchor(html_text)
    IN  IF link # None THEN TagGetHref(link) ELSE Str(<<>>)

----------------------------------------------------------------------------
(* The feed document: what soup.find_all('item') yields *)

TitleTexts == {<<"x">>}
DateTexts == {<<"d">>, <<"x">>}     \* "d" is text pd.to_datetime can parse

RawEntries ==
    [title : {None} \cup {Str(t) : t \in TitleTexts},
     pubDate : {None} \cup {Str(t) : t \in DateTexts},
     description : {None} \cup {Str(t) : t \in SeqsUpTo(Tokens, MaxLen)}]

(* item.<child>.text if item.<child> else '' *)
TextOrEmpty(child) == IF child # None THEN child ELSE Str(<<>>)

Outcomes == {"ok", "network_error", "http_error", "parse_error"}

Returned(v) == [raised |-> FALSE, value |-> v]
Raised(e) == [raised |-> TRUE, exc |-> e]

(* crypto_news.py: one pass of the for loop of fetch_news *)
ApiSource(summary_html) ==
    IF summary_html # <<>> THEN clean_html(LastAfterClose(summary_html)) ELSE <<>>

ApiNewsItem(item) ==
    LET summary_html == TextOrEmpty(item.description).val
        summary == clean_html(summary_html)
        source == ApiSource(summary_html)
    IN  [title |-> TextOrEmpty(item.title),
         link |-> extract_link(summary_html),
         published_date |-> TextOrEmpty(item.pubDate),
         summary |-> Str(summary),
         source |-> Str(Strip(source))]

(* the try block of fetch_news: requests.get, raise_for_status and
   BeautifulSoup raise on the three failures *)
ApiFetchTry(outcome, doc) ==
    IF outcome = "network_error" THEN Raised("ConnectionError")
    ELSE IF outcome = "http_error" THEN Raised("HTTPError")
    ELSE IF outcome = "parse_error" THEN Raised("ParserError")
    ELSE Returned([i \in 1..Len(doc) |-> ApiNewsItem(doc[i])])

CatchNone(attempt, empty) == attempt

(* try ... except Exception: return [] *)
CatchAll(attempt, empty) == IF attempt.raised THEN Returned(empty) ELSE attempt

fetch_news(outcome, doc) == CatchAll(ApiFetchTry(outcome, doc), <<>>)

(* crypto_news_app.py: one pass of the for loop of fetch_news *)
AppSource(summary_html) ==
    IF \E i \in 1..Len(summary_html) : summary_html[i] = "</a>"
    THEN Strip(Filter(LastAfterClose(summary_html), Tokens \ TagTokens))
    ELSE <<>>

AppLink(summary_html) ==
    LET link_tag == FindAnchor(summary_html)
    IN  IF link_tag # None THEN TagGetHrefDefault(link_tag) ELSE Str(<<>>)

(* pd.to_datetime(text): NaT for the empty string, an error for text that is
   no date; pd.Timestamp.now() when the entry has no pubDate *)
AppTimestamp(item, clock) ==
    IF item.pubDate = None THEN Returned([type |-> "Timestamp", t |-> clock])
    ELSE IF item.pubDate.val = <<>> THEN Returned([type |-> "NaT"])
    ELSE IF item.pubDate.val = <<"d">> THEN Returned([type |-> "Timestamp", t |-> 0])
    ELSE Raised("DateParseError")

AppNewsItem(item, clock) ==
    LET summary_html == TextOrEmpty(item.description).val
    IN  [title |-> TextOrEmpty(item.title),
         link |-> AppLink(summary_html),
         source |-> Str(AppSource(summary_html)),
         published_date |-> TextOrEmpty(item.pubDate),
         timestamp |-> AppTimestamp(item, clock).value]

AppFetchTry(outcome, doc, clock) ==
    IF outcome = "network_error" THEN Raised("ConnectionError")
    ELSE IF outcome = "http_error" THEN Raised("HTTPError")
    ELSE IF outcome = "parse_error" THEN Raised("ParserError")
    ELSE IF \E i \in 1..Len(doc) : AppTimestamp(doc[i], clock).raised
         THEN Raised("DateParseError")
    ELSE Returned([i \in 1..Len(doc) |-> AppNewsItem(doc[i], clock)])

(* the rows of the returned DataFrame; pd.DataFrame() has none *)
app_fetch_news(outcome, doc, clock) == CatchAll(AppFetchTry(outcome, doc, clock), <<>>)

----------------------------------------------------------------------------
(* NewsCache *)

NewsCacheGetInclusive(store, key, t) ==
    IF key \in DOMAIN store
    THEN LET item == store[key]
         IN  IF t <= item.expiry THEN item.data ELSE None
    ELSE None

(* NewsCache.get, with datetime.now() = t *)
NewsCacheGet(store, key, t) ==
    IF key \in DOMAIN store
    THEN LET item == store[key]
         IN  IF t < item.expiry THEN item.data ELSE None
    ELSE None

(* NewsCache.set, with datetime.now() = t *)
NewsCacheSet(store, key, value, ttl_seconds, t) ==
    [k \in DOMAIN store \cup {key} |->
        IF k = key THEN [data |-> value, expiry |-> t + ttl_seconds] ELSE store[k]]

(* history of the last set() on a key *)
RecordSet(hist, key, value, ttl_seconds, t) ==
    [k \in DOMAIN hist \cup {key} |->
        IF k = key THEN [value |-> value, ttl |-> ttl_seconds, at |-> t] ELSE hist[k]]

EmptyStore == [k \in {} |-> None]

----------------------------------------------------------------------------
(* Initial values *)

CacheDuration == 300

InitCache == [news |-> <<>>, last_update |-> None, cache_duration |-> CacheDuration]

InitUpd ==
    [pc |-> "fetch", cycle |-> 1, news_items |-> <<>>, wakeAt |-> 0,
     fails |-> 0, luAtFail |-> None, fetchStart |-> 0, fetchEnd |-> 0]

NoResponse ==
    [endpoint |-> "none", last_update |-> None, count |-> 0, news |-> <<>>,
     tags |-> [last_update |-> 0, news |-> 0, count |-> 0, at |-> 0]]

IdleReq ==
    [pc |-> "idle", route |-> "none", count |-> 0, cache_key |-> <<>>,
     hit |-> FALSE, dirty |-> FALSE, response |-> NoResponse]

Threads == {"t1", "t2"}

NoNorm == [pc |-> "off"]

ServerIdle ==
    /\ cache = InitCache
    /\ written = [news |-> 0, last_update |-> 0]
    /\ upd = InitUpd
    /\ req = [t \in Threads |-> IdleReq]
    /\ started = 0

StoreIdle ==
    /\ now = 0
    /\ news_cache = EmptyStore
    /\ lastSet = EmptyStore
    /\ got = None

----------------------------------------------------------------------------
(* Direct use of NewsCache: set and get with any ttl, the clock ticking in
   single seconds *)

TtlKeys == {<<"k1">>, <<"k2">>}
TtlValues == {Str(<<>>), Str(<<"x">>)}

TtlInit ==
    /\ StoreIdle
    /\ ServerIdle
    /\ norm = NoNorm

TtlSet(key, value, ttl_seconds) ==
    /\ news_cache' = NewsCacheSet(news_cache, key, value, ttl_seconds, now)
    /\ lastSet' = RecordSet(lastSet, key, value, ttl_seconds, now)
    /\ UNCHANGED <<now, cache, written, upd, req, started, got, norm>>

TtlGetEvicting(key) ==
    /\ got' = [type |-> "got", key |-> key,
               result |-> NewsCacheGet(news_cache, key, now),
               wasSet |-> key \in DOMAIN lastSet,
               set |-> IF key \in DOMAIN lastSet THEN lastSet[key]
                       ELSE [value |-> None, ttl |-> 0, at |-> 0],
               at |-> now]
    /\ news_cache' = [k \in {j \in DOMAIN news_cache :
                                  j # key \/ now < news_cache[j].expiry} |->
                         news_cache[k]]
    /\ UNCHANGED <<now, cache, written, upd, req, started, lastSet, norm>>

TtlGet(key) ==
    /\ got' = [type |-> "got", key |-> key,
               result |-> NewsCacheGet(news_cache, key, now),
               wasSet |-> key \in DOMAIN lastSet,
               set |-> IF key \in DOMAIN lastSet THEN lastSet[key]
                       ELSE [value |-> None, ttl |-> 0, at |-> 0],
               at |-> now]
    /\ UNCHANGED <<now, cache, written, upd, news_cache, req, started, lastSet, norm>>

TtlTick ==
    /\ now < MaxClock
    /\ now' = now + 1
    /\ UNCHANGED <<cache, written, upd, news_cache, req, started, lastSet, got, norm>>

TtlNext ==
    \/ \E key \in TtlKeys, value \in TtlValues, ttl_seconds \in 0..MaxTtl :
           TtlSet(key, value, ttl_seconds)
    \/ \E key \in TtlKeys : TtlGet(key)
    \/ TtlTick

SpecTTL == TtlInit /\ [][TtlNext]_vars

(* C4: a get after set(key, v, ttl), with no later set on the key, returns v
   while the elapsed time is below ttl and None from ttl on; a key never set
   is absent *)
C4_GetAfterSet ==
    got # None =>
        got.result = IF got.wasSet /\ got.at - got.set.at < got.set.ttl
                     THEN got.set.value ELSE None

(* a get exactly ttl seconds after the set, ttl positive, found nothing, and
   the entry is still stored *)
C4_Witness ==
    /\ got # None
    /\ got.wasSet
    /\ got.set.ttl > 0
    /\ got.at - got.set.at = got.set.ttl
    /\ got.result = None
    /\ got.key \in DOMAIN news_cache

----------------------------------------------------------------------------
(* The fetcher and normalizer on their own: one feed document of at most one
   entry, any outcome of the network call, first fetch_news of the API, then
   fetch_news of the dashboard *)

NormDocs == {<<>>} \cup {<<e>> : e \in RawEntries}

NormInit ==
    /\ StoreIdle
    /\ ServerIdle
    /\ norm \in [pc : {"input"}, outcome : Outcomes, doc : NormDocs,
                 api : {None}, app : {None}]

NormApiFetch ==
    /\ norm.pc = "input"
    /\ norm' = [norm EXCEPT !.pc = "api", !.api = fetch_news(norm.outcome, norm.doc)]
    /\ UNCHANGED <<now, cache, written, upd, news_cache, req, started, lastSet, got>>

NormAppFetch ==
    /\ norm.pc = "api"
    /\ norm' = [norm EXCEPT !.pc = "done",
                            !.app = app_fetch_news(norm.outcome, norm.doc, now)]
    /\ UNCHANGED <<now, cache, written, upd, news_cache, req, started, lastSet, got>>

NormNext == NormApiFetch \/ NormAppFetch

SpecNorm == NormInit /\ [][NormNext]_vars

(* C8: fetch_news never raises; whenever the network call or the parse fails
   it returns the empty sequence (the API's list, the dashboard's frame) *)
C8_FetchNeverRaises ==
    /\ norm.pc \in {"api", "done"} =>
           /\ ~norm.api.raised
           /\ norm.outcome # "ok" => norm.api.value = <<>>
    /\ norm.pc = "done" =>
           /\ ~norm.app.raised
           /\ norm.outcome # "ok" => norm.app.value = <<>>

(* both fetchers came back empty from a failed parse of a non-empty document *)
C8_Witness ==
    /\ norm.pc = "done"
    /\ norm.outcome = "parse_error"
    /\ norm.doc # <<>>
    /\ norm.api = Returned(<<>>)
    /\ norm.app = Returned(<<>>)

RecordFields == {"title", "link", "published_date", "summary", "source"}

(* C9: every field of every normalized record of the API is a string *)
C9_EveryFieldIsString ==
    norm.pc \in {"api", "done"} =>
        \A i \in 1..Len(norm.api.value) :
            \A f \in RecordFields : IsStr(norm.api.value[i][f])

(* the source as the claim has it: the text after the last '</a>' of the
   description, markup removed, trimmed; empty when there is no '</a>' *)
ClaimedSource(item) ==
    LET d == TextOrEmpty(item.description).val
    IN  IF \E i \in 1..Len(d) : d[i] = "</a>"
        THEN Str(Strip(Filter(LastAfterClose(d), Tokens \ TagTokens)))
        ELSE Str(<<>>)

(* C10: the normalized source is the trimmed text after the last
   anchor-closing tag, and empty when the description has no anchor *)
C10_SourceAfterLastAnchor ==
    /\ norm.pc \in {"api", "done"} =>
           \A i \in 1..Len(norm.api.value) :
               norm.api.value[i].source = ClaimedSource(norm.doc[i])
    /\ norm.pc = "done" =>
           \A i \in 1..Len(norm.app.value) :
               norm.app.value[i].source = ClaimedSource(norm.doc[i])

----------------------------------------------------------------------------
(* The API server: the refresh thread and the request handlers *)

TtlSeconds == 300

TickSteps == {150}

(* the feed documents the server is run on: empty, one entry, two entries *)
Entry1 ==
    [title |-> Str(<<"x">>), pubDate |-> Str(<<"d">>),
     description |-> Str(<<"<a href>", "x", "</a>", "x">>)]

Entry2 == [title |-> None, pubDate |-> None, description |-> None]

FeedDocs == {<<>>, <<Entry1>>, <<Entry2, Entry1>>}

Routes == {"home", "news", "latest", "status"}
MemoRoutes == {"news", "latest"}      \* the routes under @cache_response

Min(a, b) == IF a < b THEN a ELSE b

(* str(int) of a non-negative integer: its decimal digits *)
Digit(n) == <<"0", "1", "2", "3", "4", "5", "6", "7", "8", "9">>[n + 1]

RECURSIVE IntStr(_)
IntStr(n) == IF n < 10 THEN <<Digit(n)>> ELSE IntStr(n \div 10) \o <<Digit(n % 10)>>

StrKwargsDropped(route, count) == <<"{", "}">>

(* str(kwargs): Flask passes the URL variables by keyword, so kwargs is {}
   for get_news and {'count': n} for get_latest_news *)
StrKwargs(route, count) ==
    IF route = "latest"
    THEN <<"{">> \o <<"'", "c", "o", "u", "n", "t", "'", ":", " ">> \o IntStr(count) \o <<"}">>
    ELSE <<"{", "}">>

(* f.__name__, character by character *)
HandlerName(route) ==
    IF route = "news" THEN <<"g", "e", "t", "_", "n", "e", "w", "s">>
    ELSE IF route = "latest"
         THEN <<"g", "e", "t", "_", "l", "a", "t", "e", "s", "t", "_", "n", "e", "w", "s">>
    ELSE IF route = "status"
         THEN <<"g", "e", "t", "_", "s", "t", "a", "t", "u", "s">>
    ELSE <<"h", "o", "m", "e">>

(* f.__name__ + str(args) + str(kwargs), args being the empty tuple *)
CacheKey(route, count) == HandlerName(route) \o <<"(", ")">> \o StrKwargs(route, count)

(* datetime.strftime *)
Strftime(d, fmt) == [type |-> "str", fmt |-> fmt, t |-> d.t]

(* the `if news_items:` of update_cache *)
ShouldWriteAlways(news_items) == TRUE

ShouldWrite(news_items) == news_items # <<>>

(* cache['news'] = news_items *)
WriteNewsMerged(c, news_items) == [c EXCEPT !.news = c.news \o news_items]

WriteNews(c, news_items) == [c EXCEPT !.news = news_items]

(* cache['last_update'] = datetime.now() *)
WriteLastUpdate(c, t) == [c EXCEPT !.last_update = DateTime(t)]

(* every request in progress has now overlapped a write of the snapshot *)
MarkDirty(r) == [t \in Threads |-> IF r[t].pc # "idle" THEN [r[t] EXCEPT !.dirty = TRUE] ELSE r[t]]

(* the clock advances, up to the bound of the run *)
Tick(max) ==
    /\ \E d \in TickSteps :
           /\ now + d <= max
           /\ now' = now + d
    /\ UNCHANGED <<cache, written, upd, news_cache, req, started, lastSet, got, norm>>

(* line 110: the call of fetch_news begins *)
UpdFetchStart ==
    /\ upd.pc = "fetch"
    /\ upd' = [upd EXCEPT !.pc = "fetching", !.fetchStart = now]
    /\ UNCHANGED <<now, cache, written, news_cache, req, started, lastSet, got, norm>>

(* lines 110-111, 115-116: fetch_news comes back; the batch is tested *)
UpdFetchReturn(outcome, doc) ==
    /\ upd.pc = "fetching"
    /\ LET r == fetch_news(outcome, doc)
       IN  IF ~r.raised /\ ShouldWrite(r.value)
           THEN upd' = [upd EXCEPT !.pc = "write_news", !.news_items = r.value,
                                   !.fetchEnd = now]
           ELSE upd' = [upd EXCEPT !.pc = "sleep",
                                   !.fetchEnd = now,
                                   !.news_items = IF r.raised THEN <<>> ELSE r.value,
                                   !.fails = upd.fails + 1,
                                   !.luAtFail = IF upd.fails = 0 THEN cache.last_update
                                                ELSE upd.luAtFail]
    /\ UNCHANGED <<now, cache, written, news_cache, req, started, lastSet, got, norm>>

(* line 112 *)
UpdWriteNews ==
    /\ upd.pc = "write_news"
    /\ cache' = WriteNews(cache, upd.news_items)
    /\ written' = [written EXCEPT !.news = upd.cycle]
    /\ upd' = [upd EXCEPT !.pc = "write_lu"]
    /\ req' = MarkDirty(req)
    /\ UNCHANGED <<now, news_cache, started, lastSet, got, norm>>

(* lines 113-114 *)
UpdWriteLastUpdate ==
    /\ upd.pc = "write_lu"
    /\ cache' = WriteLastUpdate(cache, now)
    /\ written' = [written EXCEPT !.last_update = upd.cycle]
    /\ upd' = [upd EXCEPT !.pc = "sleep", !.fails = 0, !.luAtFail = None]
    /\ req' = MarkDirty(req)
    /\ UNCHANGED <<now, news_cache, started, lastSet, got, norm>>

Max(a, b) == IF a > b THEN a ELSE b

UpdSleepRestOfPeriod ==
    /\ upd.pc = "sleep"
    /\ upd' = [upd EXCEPT !.pc = "sleeping",
                          !.wakeAt = Max(upd.fetchStart + cache.cache_duration, now),
                          !.news_items = <<>>]
    /\ UNCHANGED <<now, cache, written, news_cache, req, started, lastSet, got, norm>>

(* line 118: time.sleep(cache['cache_duration']) begins *)
UpdSleep ==
    /\ upd.pc = "sleep"
    /\ upd' = [upd EXCEPT !.pc = "sleeping", !.wakeAt = now + cache.cache_duration,
                          !.news_items = <<>>]
    /\ UNCHANGED <<now, cache, written, news_cache, req, started, lastSet, got, norm>>

UpdWakeUnlessFailed ==
    /\ upd.pc = "sleeping"
    /\ upd.fails = 0
    /\ now >= upd.wakeAt
    /\ upd' = [upd EXCEPT !.pc = "fetch", !.cycle = upd.cycle + 1]
    /\ UNCHANGED <<now, cache, written, news_cache, req, started, lastSet, got, norm>>

(* line 118 ends, line 108: the next iteration *)
UpdWake ==
    /\ upd.pc = "sleeping"
    /\ now >= upd.wakeAt
    /\ upd' = [upd EXCEPT !.pc = "fetch", !.cycle = upd.cycle + 1]
    /\ UNCHANGED <<now, cache, written, news_cache, req, started, lastSet, got, norm>>

----------------------------------------------------------------------------
(* Request handlers.  A handler runs in its own thread; every read of the
   dict `cache` is a step of its own. *)

(* 'count': len(cache['news']) of get_news and get_status,
   min(count, len(cache['news'])) of get_latest_news *)
ReportedCountAsRequested(route, count, news) ==
    IF route = "latest" THEN count ELSE Len(news)

ReportedCountClamped(route, count, news) == Min(count, Len(news))

ReportedCount(route, count, news) ==
    IF route = "latest" THEN Min(count, Len(news)) ELSE Len(news)

(* 'news': cache['news'] of get_news, cache['news'][:count] of get_latest_news *)
ReportedNewsAlwaysSliced(route, count, news) == SubSeq(news, 1, Min(count, Len(news)))

ReportedNews(route, count, news) ==
    IF route = "latest" THEN SubSeq(news, 1, Min(count, Len(news))) ELSE news

(* the route is matched and the view function (for /news and /news/latest
   the wrapper of cache_response, line 51) is entered *)
ReqStart(t, route, count) ==
    /\ req[t].pc = "idle"
    /\ IF route \in MemoRoutes
       THEN started < MaxRequests /\ started' = started + 1
       ELSE UNCHANGED started
    /\ route = "latest" \/ count = 0
    /\ req' = [req EXCEPT ![t] =
                  [IdleReq EXCEPT
                      !.pc = IF route = "home" THEN "done"
                             ELSE IF route = "status" THEN "lu_test"
                             ELSE "lookup",
                      !.route = route,
                      !.count = count,
                      !.cache_key = IF route \in {"news", "latest"}
                                    THEN CacheKey(route, count) ELSE <<>>,
                      !.response = [NoResponse EXCEPT !.endpoint = route,
                                                      !.tags.count = count]]]
    /\ UNCHANGED <<now, cache, written, upd, news_cache, lastSet, got, norm>>

(* lines 52-54, 58: news_cache.get(cache_key); a stored response is returned *)
ReqLookup(t) ==
    /\ req[t].pc = "lookup"
    /\ LET response == NewsCacheGet(news_cache, req[t].cache_key, now)
       IN  IF response # None
           THEN req' = [req EXCEPT ![t].pc = "done", ![t].hit = TRUE,
                                   ![t].response = response]
           ELSE req' = [req EXCEPT ![t].pc = "lu_test"]
    /\ UNCHANGED <<now, cache, written, upd, news_cache, started, lastSet, got, norm>>

(* lines 143, 161, 174: ... if cache['last_update'] else None *)
ReqLuTest(t) ==
    /\ req[t].pc = "lu_test"
    /\ IF cache.last_update # None
       THEN req' = [req EXCEPT ![t].pc = "lu_fmt"]
       ELSE req' = [req EXCEPT ![t].pc = "count",
                               ![t].response.last_update = None,
                               ![t].response.tags.last_update = written.last_update]
    /\ UNCHANGED <<now, cache, written, upd, news_cache, started, lastSet, got, norm>>

(* lines 143, 161, 174: cache['last_update'].strftime('%Y-%m-%d %H:%M:%S') *)
ReqLuFmt(t) ==
    /\ req[t].pc = "lu_fmt"
    /\ req' = [req EXCEPT ![t].pc = "count",
                          ![t].response.last_update =
                              Strftime(cache.last_update, "%Y-%m-%d %H:%M:%S"),
                          ![t].response.tags.last_update = written.last_update]
    /\ UNCHANGED <<now, cache, written, upd, news_cache, started, lastSet, got, norm>>

(* lines 144, 162, 175 (and 176-178: get_status returns) *)
ReqCount(t) ==
    /\ req[t].pc = "count"
    /\ req' = [req EXCEPT ![t].pc = IF req[t].route = "status" THEN "done" ELSE "news",
                          ![t].response.count =
                              ReportedCount(req[t].route, req[t].count, cache.news)]
    /\ UNCHANGED <<now, cache, written, upd, news_cache, started, lastSet, got, norm>>

ReqNewsTruncating(t) ==
    /\ req[t].pc = "news"
    /\ req' = [req EXCEPT ![t].pc = "set",
                          ![t].response.news =
                              ReportedNews(req[t].route, req[t].count, cache.news),
                          ![t].response.tags.news = written.news,
                          ![t].response.tags.at = now]
    /\ cache' = [cache EXCEPT !.news =
                     ReportedNews(req[t].route, req[t].count, cache.news)]
    /\ UNCHANGED <<now, written, upd, news_cache, started, lastSet, got, norm>>

(* lines 145-153, 163-167: the last read of the snapshot; the body is complete
   (the headers the handler adds afterwards are not modelled) *)
ReqNews(t) ==
    /\ req[t].pc = "news"
    /\ req' = [req EXCEPT ![t].pc = "set",
                          ![t].response.news =
                              ReportedNews(req[t].route, req[t].count, cache.news),
                          ![t].response.tags.news = written.news,
                          ![t].response.tags.at = now]
    /\ UNCHANGED <<now, cache, written, upd, news_cache, started, lastSet, got, norm>>

(* line 56: news_cache.set(cache_key, response, ttl_seconds) *)
ReqSet(t) ==
    /\ req[t].pc = "set"
    /\ news_cache' = NewsCacheSet(news_cache, req[t].cache_key, req[t].response,
                                  TtlSeconds, now)
    /\ lastSet' = RecordSet(lastSet, req[t].cache_key, req[t].response, TtlSeconds, now)
    /\ req' = [req EXCEPT ![t].pc = "done"]
    /\ UNCHANGED <<now, cache, written, upd, started, got, norm>>

(* the response leaves the handler *)
ReqReturn(t) ==
    /\ req[t].pc = "done"
    /\ req' = [req EXCEPT ![t] = IdleReq]
    /\ UNCHANGED <<now, cache, written, upd, news_cache, started, lastSet, got, norm>>

Init ==
    /\ StoreIdle
    /\ ServerIdle
    /\ norm = NoNorm

(* the refresh thread with requests to / and /status, which store nothing *)
Next ==
    \/ Tick(MaxTime)
    \/ UpdFetchStart
    \/ \E outcome \in Outcomes, doc \in FeedDocs : UpdFetchReturn(outcome, doc)
    \/ UpdWriteNews
    \/ UpdWriteLastUpdate
    \/ UpdSleep
    \/ UpdWake
    \/ \E route \in Routes \ MemoRoutes : ReqStart("t1", route, 0)
    \/ ReqLuTest("t1")
    \/ ReqLuFmt("t1")
    \/ ReqCount("t1")
    \/ ReqReturn("t1")

Spec == Init /\ [][Next]_vars

(* the refresh thread with a bounded number of requests to the memoized
   routes /news and /news/latest/<count>, handled one after the other *)
MemoNext ==
    \/ Tick(MemoMaxTime)
    \/ UpdFetchStart
    \/ \E outcome \in Outcomes, doc \in FeedDocs : UpdFetchReturn(outcome, doc)
    \/ UpdWriteNews
    \/ UpdWriteLastUpdate
    \/ UpdSleep
    \/ UpdWake
    \/ \E route \in MemoRoutes, count \in 0..MaxCount :
           ReqStart("t1", route, count)
    \/ ReqLookup("t1")
    \/ ReqLuTest("t1")
    \/ ReqLuFmt("t1")
    \/ ReqCount("t1")
    \/ ReqNews("t1")
    \/ ReqSet("t1")
    \/ ReqReturn("t1")

SpecMemo == Init /\ [][MemoNext]_vars

(* the same, with requests to / and /status as well: all four routes *)
AllRoutesNext ==
    \/ MemoNext
    \/ \E route \in Routes \ MemoRoutes : ReqStart("t1", route, 0)

SpecAllRoutes == Init /\ [][AllRoutesNext]_vars

(* the refresh thread with requests to /news handled by two threads at the
   same time, as the threaded server of app.run does *)
ConcurrentNext ==
    \/ Tick(MemoMaxTime)
    \/ UpdFetchStart
    \/ \E outcome \in Outcomes, doc \in FeedDocs : UpdFetchReturn(outcome, doc)
    \/ UpdWriteNews
    \/ UpdWriteLastUpdate
    \/ UpdSleep
    \/ UpdWake
    \/ \E t \in Threads :
           \/ ReqStart(t, "news", 0)
           \/ ReqLookup(t)
           \/ ReqLuTest(t)
           \/ ReqLuFmt(t)
           \/ ReqCount(t)
           \/ ReqNews(t)
           \/ ReqSet(t)
           \/ ReqReturn(t)

SpecConcurrent == Init /\ [][ConcurrentNext]_vars

----------------------------------------------------------------------------
(* Claims about the refresh cycle *)

(* C1: a refresh cycle whose fetch returned no items leaves cache['news'] and
   cache['last_update'] as they were: the snapshot changes only in a step of
   a cycle that holds a non-empty batch *)
C1_EmptyCycleKeepsSnapshot == [][upd.news_items = <<>> => cache' = cache]_vars

(* two empty cycles in a row have ended over a non-empty snapshot *)
C1_Witness ==
    /\ upd.pc = "sleep"
    /\ upd.fails = 2
    /\ upd.news_items = <<>>
    /\ cache.news # <<>>
    /\ cache.last_update # None

(* C2: when a cycle with a non-empty batch completes, cache['news'] is
   exactly that batch and cache['last_update'] is the time of the write *)
C2_BatchReplacesSnapshot ==
    [][(upd.pc = "write_lu" /\ upd'.pc = "sleep") =>
          /\ cache'.news = upd.news_items
          /\ cache'.last_update = DateTime(now)]_vars

(* the second cycle has completed with a one-item batch, at 300 s or later *)
C2_Witness ==
    /\ upd.pc = "sleep"
    /\ upd.cycle = 2
    /\ Len(upd.news_items) = 1
    /\ cache.news = upd.news_items
    /\ cache.last_update = DateTime(now)
    /\ now >= CacheDuration

(* what a handler that read the whole snapshot c at once would report *)
SnapshotLastUpdate(c) ==
    IF c.last_update # None THEN Strftime(c.last_update, "%Y-%m-%d %H:%M:%S") ELSE None

(* C7: across consecutive failed cycles cache['last_update'] stays what it
   was when the first of them failed, and a /status request that no refresh
   write overlaps reports the last_update and the item count of the snapshot *)
C7_StatusReportsSnapshot ==
    /\ upd.fails >= 1 => cache.last_update = upd.luAtFail
    /\ \A t \in Threads :
           (req[t].pc = "done" /\ req[t].route = "status" /\ ~req[t].dirty) =>
               /\ req[t].response.last_update = SnapshotLastUpdate(cache)
               /\ req[t].response.count = Len(cache.news)

(* after three failed cycles in a row /status reports the time of the last
   successful cycle *)
C7_Witness ==
    /\ upd.fails = 3
    /\ cache.last_update # None
    /\ req["t1"].pc = "done"
    /\ req["t1"].route = "status"
    /\ ~req["t1"].dirty
    /\ req["t1"].response.last_update = SnapshotLastUpdate(cache)
    /\ req["t1"].response.count >= 1

----------------------------------------------------------------------------
(* Claims about the memoized routes *)

(* C3: a response of /news or /news/latest carries a last_update and a list
   of items written by the same refresh cycle *)
C3_ResponseFromOneCycle ==
    \A t \in Threads :
        (req[t].pc = "done" /\ req[t].route \in MemoRoutes) =>
            req[t].response.tags.last_update = req[t].response.tags.news

CarriesSnapshot(r, c) ==
    /\ r.response.last_update = SnapshotLastUpdate(c)
    /\ r.response.count = Len(c.news)
    /\ r.response.news = c.news

(* C5 as stated: every /news response carries the items, count and
   last_update of the snapshot at the time of the request (no refresh write
   having landed during the request) *)
C5_ResponseCarriesSnapshot ==
    \A t \in Threads :
        (req[t].pc = "done" /\ req[t].route = "news" /\ ~req[t].dirty) =>
            CarriesSnapshot(req[t], cache)

(* C5 amended: a /news response computed by get_news, no unexpired memoized
   response having been found, carries the snapshot of the time of the
   request; a request that finds one returns the stored response *)
C5_ComputedResponseCarriesSnapshot ==
    \A t \in Threads :
        (req[t].pc = "done" /\ req[t].route = "news") =>
            /\ (~req[t].hit /\ ~req[t].dirty) => CarriesSnapshot(req[t], cache)
            /\ req[t].hit =>
                   /\ req[t].cache_key \in DOMAIN news_cache
                   /\ req[t].response = news_cache[req[t].cache_key].data

(* get_news has just computed a response with two items and a last_update *)
C5_Witness ==
    /\ req["t1"].pc = "done"
    /\ req["t1"].route = "news"
    /\ ~req["t1"].hit
    /\ ~req["t1"].dirty
    /\ req["t1"].response.count = 2
    /\ req["t1"].response.news = cache.news
    /\ req["t1"].response.last_update # None

LatestOf(r, c) ==
    IF r.count >= Len(c.news)
    THEN r.response.news = c.news /\ r.response.count = Len(c.news)
    ELSE r.response.news = SubSeq(c.news, 1, r.count) /\ r.response.count = r.count

(* C6 as stated: every /news/latest/count response holds all the items of
   the snapshot of the time of the request and their number when count is at
   least that number, the first count items and count otherwise *)
C6_LatestClampsToSnapshot ==
    \A t \in Threads :
        (req[t].pc = "done" /\ req[t].route = "latest" /\ ~req[t].dirty) =>
            LatestOf(req[t], cache)

(* C6 amended: so does every response computed by get_latest_news, no
   unexpired memoized response having been found for the count *)
C6_ComputedLatestClampsToSnapshot ==
    \A t \in Threads :
        (req[t].pc = "done" /\ req[t].route = "latest"
            /\ ~req[t].hit /\ ~req[t].dirty) =>
                LatestOf(req[t], cache)

(* get_latest_news was asked for more items than the non-empty snapshot
   holds and reported the actual total *)
C6_Witness ==
    /\ req["t1"].pc = "done"
    /\ req["t1"].route = "latest"
    /\ ~req["t1"].hit
    /\ ~req["t1"].dirty
    /\ Len(cache.news) >= 1
    /\ req["t1"].count > Len(cache.news)
    /\ req["t1"].response.count = Len(cache.news)
    /\ req["t1"].response.news = cache.news

----------------------------------------------------------------------------
(* Claims about the refresh loop as a whole *)

(* the refresh thread is scheduled again and again, the call of fetch_news
   comes back, and the clock advances up to its bound *)
UpdFair ==
    /\ WF_vars(Tick(MaxTime))
    /\ WF_vars(UpdFetchStart)
    /\ WF_vars(\E outcome \in Outcomes, doc \in FeedDocs : UpdFetchReturn(outcome, doc))
    /\ WF_vars(UpdWriteNews)
    /\ WF_vars(UpdWriteLastUpdate)
    /\ WF_vars(UpdSleep)
    /\ WF_vars(UpdWake)

SpecLive == Init /\ [][Next]_vars /\ UpdFair

(* the cycles that can begin before the clock stops *)
LiveCycles == 1..(MaxTime \div CacheDuration + 1)

(* C11: every cycle, however its fetch ended and however many cycles failed
   before it, comes to its sleep, and every sleep that ends within the clock
   bound is followed by the fetch of the next cycle *)
C11_LoopNeverStops ==
    /\ \A c \in LiveCycles :
           (upd.pc = "fetching" /\ upd.cycle = c)
               ~> (upd.pc = "sleeping" /\ upd.cycle = c)
    /\ \A c \in LiveCycles :
           (upd.pc = "sleeping" /\ upd.cycle = c /\ upd.wakeAt <= MaxTime)
               ~> (upd.pc = "fetching" /\ upd.cycle = c + 1)

(* the fourth cycle is fetching after three failed cycles in a row *)
C11_Witness ==
    /\ upd.pc = "fetching"
    /\ upd.cycle = 4
    /\ upd.fails = 3

(* C12 as stated: fetches start on the fixed period, or as soon as the
   previous fetch has finished when that is later: the sleep of a cycle ends
   no later than one period after its fetch started, and at once when the
   period is already over *)
C12_FixedPeriodOrBackToBack ==
    upd.pc = "sleeping" => upd.wakeAt <= Max(upd.fetchStart + CacheDuration, now)

(* C12 amended: every fetch after the first starts a full period or more
   after the previous fetch ended, however long that fetch took *)
C12_FullSleepAfterEveryFetch ==
    (upd.pc = "fetching" /\ upd.cycle >= 2) =>
        upd.fetchStart >= upd.fetchEnd + CacheDuration

(* the first fetch took a whole period, and the second began a whole period
   after it ended *)
C12_Witness ==
    /\ upd.pc = "fetching"
    /\ upd.cycle = 2
    /\ upd.fetchEnd = CacheDuration
    /\ upd.fetchStart = upd.fetchEnd + CacheDuration

----------------------------------------------------------------------------
(* Claims about the memoization *)

(* the calls the keys are compared over: counts of one and of two digits *)
KeyCalls == {<<"news", 0>>} \cup {<<"latest", n>> : n \in 0..(MaxCount + 10)}

(* C13: the cache key of a call of a memoized handler differs from the key
   of every call that differs in the handler or in count; every stored response is stored under
   the key of the call that computed it, and a call that finds a stored
   response finds one computed for its own handler and count *)
C13_KeysDoNotCollide ==
    /\ \A t \in Threads :
           req[t].route \in MemoRoutes =>
               \A b \in KeyCalls :
                   b # <<req[t].route, req[t].count>> =>
                       CacheKey(b[1], b[2]) # req[t].cache_key
    /\ \A k \in DOMAIN news_cache :
           k = CacheKey(news_cache[k].data.endpoint, news_cache[k].data.tags.count)
    /\ \A t \in Threads :
           (req[t].pc = "done" /\ req[t].hit) =>
               /\ req[t].response.endpoint = req[t].route
               /\ req[t].response.tags.count = req[t].count

(* a call for count 1 has found nothing while an unexpired response for
   count 2 is stored *)
C13_Witness ==
    /\ req["t1"].pc = "lu_test"
    /\ req["t1"].route = "latest"
    /\ req["t1"].count = 1
    /\ NewsCacheGet(news_cache, CacheKey("latest", 2), now) # None
    /\ NewsCacheGet(news_cache, CacheKey("latest", 1), now) = None


----------------------------------------------------------------------------
(* C14: expiry in NewsCache is lazy.  No step removes a key; a get leaves the
   store as it was; a stored entry changes only by a set on its key at that
   instant; and a key that was set is still stored when a get reports it
   absent *)
C14_LazyExpiry ==
    [][/\ DOMAIN news_cache \subseteq DOMAIN news_cache'
       /\ got' # got => news_cache' = news_cache
       /\ \A k \in DOMAIN news_cache :
              news_cache'[k] # news_cache[k] =>
                  /\ k \in DOMAIN lastSet'
                  /\ lastSet'[k].at = now
                  /\ news_cache'[k] = [data |-> lastSet'[k].value,
                                       expiry |-> now + lastSet'[k].ttl]
       /\ (got' # None /\ got'.wasSet) => got'.key \in DOMAIN news_cache'
      ]_vars

(* a get found a stored entry expired, and a second later the entry is still
   stored, unchanged *)
C14_Witness ==
    /\ got # None
    /\ got.wasSet
    /\ got.result = None
    /\ now > got.at
    /\ got.key \in DOMAIN news_cache
    /\ news_cache[got.key].expiry < got.at
    /\ news_cache[got.key].data = got.set.value

----------------------------------------------------------------------------
(* C15: the snapshot has a single writer.  A step in which a request handler
   moves leaves the dict `cache` as it was; cache_duration never changes;
   news changes only by line 112 and last_update only by line 113 of the
   refresh thread *)
C15_SingleWriter ==
    [][/\ (\E t \in Threads : req'[t].pc # req[t].pc) => cache' = cache
       /\ cache'.cache_duration = cache.cache_duration
       /\ cache'.news # cache.news =>
              upd.pc = "write_news" /\ upd'.pc = "write_lu"
       /\ cache'.last_update # cache.last_update =>
              upd.pc = "write_lu" /\ upd'.pc = "sleep"
      ]_vars

(* /news/latest/1 has read its slice from a snapshot of two items, which is
   still there in full *)
C15_Witness ==
    /\ req["t1"].pc = "set"
    /\ req["t1"].route = "latest"
    /\ req["t1"].count = 1
    /\ Len(cache.news) = 2
    /\ req["t1"].response.news = SubSeq(cache.news, 1, 1)
    /\ cache.last_update # None

----------------------------------------------------------------------------
(* C16: the snapshot is monotone.  Once a cycle has written last_update
   (the first successful cycle has completed), cache['news'] is non-empty and
   cache['last_update'] is set; a non-empty news never becomes empty, and
   last_update never goes back to None and never decreases *)
C16_SnapshotMonotone ==
    [][/\ written.last_update >= 1 =>
              cache.news # <<>> /\ cache.last_update # None
       /\ cache.news # <<>> => cache'.news # <<>>
       /\ cache.last_update # None =>
              /\ cache'.last_update # None
              /\ cache'.last_update.t >= cache.last_update.t
      ]_vars

(* the third cycle has written both fields, 600 s or more after start, and
   sleeps over a non-empty snapshot *)
C16_Witness ==
    /\ upd.pc = "sleeping"
    /\ upd.cycle = 3
    /\ written = [news |-> 3, last_update |-> 3]
    /\ cache.news # <<>>
    /\ cache.last_update # None
    /\ cache.last_update.t >= 2 * CacheDuration

----------------------------------------------------------------------------
(* C17 as stated: a response that /news or /news/latest serves from the
   store was computed from the snapshot (its last read of it) less than 300
   seconds before the request that is served *)
C17_ServedWithinTtlOfCompute ==
    [][\A t \in Threads :
          (req[t].pc = "lookup" /\ req'[t].pc = "done") =>
              now - req'[t].response.tags.at < TtlSeconds
      ]_vars

(* C17 amended: a response served from the store is the one last stored
   under the key, news_cache.set having stored it less than 300 seconds
   before the request and not before the handler's last read of the
   snapshot *)
C17_ServedWithinTtlOfSet ==
    [][\A t \in Threads :
          (req[t].pc = "lookup" /\ req'[t].pc = "done") =>
              /\ req[t].cache_key \in DOMAIN lastSet
              /\ req'[t].response = lastSet[req[t].cache_key].value
              /\ now - lastSet[req[t].cache_key].at < TtlSeconds
              /\ req'[t].response.tags.at <= lastSet[req[t].cache_key].at
      ]_vars

(* a request is served a stored response whose snapshot was read 300 s ago
   and which was stored later than that, less than 300 s ago *)
C17_Witness ==
    /\ req["t1"].pc = "done"
    /\ req["t1"].hit
    /\ now - req["t1"].response.tags.at = TtlSeconds
    /\ req["t1"].cache_key \in DOMAIN lastSet
    /\ lastSet[req["t1"].cache_key].at > req["t1"].response.tags.at
    /\ now - lastSet[req["t1"].cache_key].at < TtlSeconds

----------------------------------------------------------------------------
(* C18: in every response of /news or /news/latest the reported count is the
   number of items of the returned list *)
C18_CountIsLengthOfList ==
    \A t \in Threads :
        (req[t].pc \in {"set", "done"} /\ req[t].route \in MemoRoutes) =>
            req[t].response.count = Len(req[t].response.news)

----------------------------------------------------------------------------
(* the positions of a request inside the wrapped handler, lines 55-56 *)
Executing(r) ==
    /\ r.route \in MemoRoutes
    /\ r.pc \in {"lu_test", "lu_fmt", "count", "news", "set"}

(* C19: the wrapped handler runs for a key only while no unexpired entry is
   stored under the key, and no two requests for the same key run it at the
   same time: at most one execution per key and TTL window *)
C19_OneExecutionPerWindow ==
    \A t \in Threads :
        Executing(req[t]) =>
            /\ NewsCacheGet(news_cache, req[t].cache_key, now) = None
            /\ \A u \in Threads \ {t} :
                   ~(Executing(req[u]) /\ req[u].cache_key = req[t].cache_key)

============================================================================
